---------------------------- MODULE Spec2Model ----------------------------
(***************************************************************************)
(* Model of modules/RTC/ortc/utils.js: the extraction of ORTC capability   *)
(* and transport records from an sdp-transform document, and the           *)
(* negotiation of the local RTP capabilities against a remote record.      *)
(*                                                                         *)
(* Every exported function is a pure function of its argument, so each is  *)
(* an operator that computes what the JavaScript computes, and one action  *)
(* per function applies it to the inputs chosen by Init.                   *)
(*                                                                         *)
(* Representation of JavaScript values:                                    *)
(*   - an Array is a sequence; a Map is the sequence of its entries in     *)
(*     insertion order (Map.set on a present key replaces the value in     *)
(*     place, on a new key appends);                                       *)
(*   - a missing string field is the string "undefined"; a missing number  *)
(*     that the code only tests for truthiness is 0; any other optional    *)
(*     value is <<>> (undefined) or <<v>>;                                 *)
(*   - a template string `${a}/${b}` is the pair <<a, b>>;                 *)
(*   - a string that the code splits on ' ' is the sequence of its tokens. *)
(***************************************************************************)
EXTENDS Integers, Sequences, FiniteSets, TLC

VARIABLES
    sdpObject,               \* the parsed document handed to the extractors
    filterWithCapabilities,  \* the remote RTCRtpCapabilities
    localFullCapabilities,   \* what RTCRtpReceiver.getCapabilities() returns
    called,                  \* which function has been applied ("none" at first)
    ret,                     \* the outcome of the call
    rtxLoop                  \* position inside the RTX loop of getLocalCapabilities

vars == <<sdpObject, filterWithCapabilities, localFullCapabilities, called, ret, rtxLoop>>

-----------------------------------------------------------------------------
(* Outcomes of a call *)

NoRet == [status |-> "none"]
Returned(v) == [status |-> "returned", value |-> v]
Threw == [status |-> "threw"]
Diverges == [status |-> "diverges"]

(* Values that stand for unused variables *)
NoDocument == [media |-> <<>>, fingerprint |-> <<>>, icelite |-> "undefined"]
NoCapabilities == [codecs |-> <<>>, fecMechanisms |-> <<>>, headerExtensions |-> <<>>]
NoLoop == [codecs |-> <<>>, i |-> 0, remoteRtxMap |-> <<>>, primaries |-> 0, running |-> FALSE]

-----------------------------------------------------------------------------
(* Generic helpers *)

SeqsUpTo(S, n) == UNION {[1..k -> S] : k \in 0..n}

-----------------------------------------------------------------------------
(* The document: the tree sdp-transform builds from the lines of an SDP.   *)
(* A media section starts at an m= line and collects the attribute lines   *)
(* that follow it, each kind of attribute in its own array, in line order. *)

MediaSection(kind, port) ==
    [type |-> kind, port |-> port,
     rtp |-> <<>>, fmtp |-> <<>>, rtcpFb |-> <<>>, ext |-> <<>>,
     ssrcGroups |-> <<>>, ssrcs |-> <<>>]

AddLine(m, line) ==
    CASE line.t = "rtp"       -> [m EXCEPT !.rtp = Append(@, line.v)]
      [] line.t = "fmtp"      -> [m EXCEPT !.fmtp = Append(@, line.v)]
      [] line.t = "rtcpFb"    -> [m EXCEPT !.rtcpFb = Append(@, line.v)]
      [] line.t = "ext"       -> [m EXCEPT !.ext = Append(@, line.v)]
      [] line.t = "ssrcGroup" -> [m EXCEPT !.ssrcGroups = Append(@, line.v)]
      [] line.t = "ssrc"      -> [m EXCEPT !.ssrcs = Append(@, line.v)]

RECURSIVE ParseLines(_, _, _)
ParseLines(lines, i, media) ==
    IF i > Len(lines) THEN media
    ELSE LET line == lines[i] IN
         IF line.t = "m"
         THEN ParseLines(lines, i + 1, Append(media, MediaSection(line.v.kind, 9)))
         ELSE IF media = <<>>
         THEN ParseLines(lines, i + 1, media)
         ELSE ParseLines(lines, i + 1,
                  [media EXCEPT ![Len(media)] = AddLine(@, line)])

Document(lines) ==
    [media |-> ParseLines(lines, 1, <<>>),
     fingerprint |-> <<>>, icelite |-> "undefined"]

MediaLines == {[t |-> "m", v |-> [kind |-> k]] : k \in {"audio", "video", "application"}}

-----------------------------------------------------------------------------
(* extractCapabilities *)

\* Bound: the number of lines of a document given to extractCapabilities.
MaxCapLines == 4

\* a=rtpmap entries: payload, codec name, clock rate, encoding (0: not given).
RtpEntries ==
    {[payload |-> p, codec |-> "VP8", rate |-> 90000, encoding |-> 0] : p \in {96, 97}}
    \cup {[payload |-> p, codec |-> "opus", rate |-> 48000, encoding |-> 2] : p \in {96, 97}}

\* a=fmtp entries; config is what sdpTransform.parseFmtpConfig reads, as the
\* sequence of its <<name, value>> settings.
FmtpEntries == {[payload |-> 96, config |-> <<<<"minptime", 10>>, <<"useinbandfec", 1>>>>]}

\* a=extmap entries.
ExtEntries == {[value |-> v, uri |-> u] : v \in {1, 2}, u \in {"urn:a", "urn:b"}}

Lines(t, S) == {[t |-> t, v |-> e] : e \in S}

CodecLines == MediaLines \cup Lines("rtp", RtpEntries) \cup Lines("fmtp", FmtpEntries)
                \cup Lines("rtcpFb", {[payload |-> 97, type |-> "nack", subtype |-> ""]})
ExtLines == MediaLines \cup Lines("ext", ExtEntries)
             \cup Lines("rtcpFb", {[payload |-> 96, type |-> "ccm", subtype |-> "fir"]})

CapDocuments(n) ==
    {Document(ls) : ls \in SeqsUpTo(CodecLines, n) \cup SeqsUpTo(ExtLines, n)}

\* codecsMap.has(payload), and where codecsMap.get(payload) is found
CodecsMapHas(codecsMap, payload) ==
    \E i \in 1..Len(codecsMap) : codecsMap[i].preferredPayloadType = payload
CodecsMapIndex(codecsMap, payload) ==
    CHOOSE i \in 1..Len(codecsMap) : codecsMap[i].preferredPayloadType = payload

\* A plausible slip: an entry already registered for the payload type is kept.
CodecsMapSetKeepFirst(codecsMap, codec) ==
    IF CodecsMapHas(codecsMap, codec.preferredPayloadType)
    THEN codecsMap
    ELSE Append(codecsMap, codec)

\* codecsMap.set(codec.preferredPayloadType, codec)
CodecsMapSet(codecsMap, codec) ==
    IF CodecsMapHas(codecsMap, codec.preferredPayloadType)
    THEN [codecsMap EXCEPT ![CodecsMapIndex(codecsMap, codec.preferredPayloadType)] = codec]
    ELSE Append(codecsMap, codec)

\* sdpTransform.parseFmtpConfig: the settings as an object; a name given twice
\* keeps its first position and its last value.
RECURSIVE parseFmtpConfig(_, _, _)
parseFmtpConfig(config, i, acc) ==
    IF i > Len(config) THEN acc
    ELSE LET name == config[i][1]
             IsName(e) == e[1] = name
         IN  IF \E j \in 1..Len(acc) : IsName(acc[j])
             THEN parseFmtpConfig(config, i + 1,
                      [acc EXCEPT ![CHOOSE j \in 1..Len(acc) : IsName(acc[j])] = config[i]])
             ELSE parseFmtpConfig(config, i + 1, Append(acc, config[i]))

\* for (const rtp of m.rtp) { ... codecsMap.set(...) }
RECURSIVE GetCodecs(_, _, _, _)
GetCodecs(rtps, i, kind, codecsMap) ==
    IF i > Len(rtps) THEN codecsMap
    ELSE LET rtp == rtps[i]
             codec == [clockRate |-> rtp.rate,
                       kind |-> kind,
                       mimeType |-> <<kind, rtp.codec>>,
                       name |-> rtp.codec,
                       numChannels |-> IF rtp.encoding # 0 THEN rtp.encoding ELSE 1,
                       parameters |-> <<>>,
                       preferredPayloadType |-> rtp.payload,
                       rtcpFeedback |-> <<>>]
         IN  GetCodecs(rtps, i + 1, kind, CodecsMapSet(codecsMap, codec))

\* for (const fmtp of m.fmtp || []) { ... codec.parameters = parameters }
RECURSIVE GetCodecParameters(_, _, _)
GetCodecParameters(fmtps, i, codecsMap) ==
    IF i > Len(fmtps) THEN codecsMap
    ELSE LET fmtp == fmtps[i]
             parameters == parseFmtpConfig(fmtp.config, 1, <<>>)
         IN  IF ~CodecsMapHas(codecsMap, fmtp.payload)
             THEN GetCodecParameters(fmtps, i + 1, codecsMap)
             ELSE GetCodecParameters(fmtps, i + 1,
                      [codecsMap EXCEPT ![CodecsMapIndex(codecsMap, fmtp.payload)].parameters
                                            = parameters])

\* for (const fb of m.rtcpFb || []) { ... codec.rtcpFeedback.push(...) }
RECURSIVE GetRtcpFeedback(_, _, _)
GetRtcpFeedback(fbs, i, codecsMap) ==
    IF i > Len(fbs) THEN codecsMap
    ELSE LET fb == fbs[i] IN
         IF ~CodecsMapHas(codecsMap, fb.payload)
         THEN GetRtcpFeedback(fbs, i + 1, codecsMap)
         ELSE GetRtcpFeedback(fbs, i + 1,
                  [codecsMap EXCEPT ![CodecsMapIndex(codecsMap, fb.payload)].rtcpFeedback
                                        = Append(@, [parameter |-> fb.subtype, type |-> fb.type])])

\* A plausible slip: a saved extension with the same uri counts as a duplicate
\* whatever its kind.
DuplicatedByUri(headerExtensions, headerExtension) ==
    \E i \in 1..Len(headerExtensions) :
        headerExtension.uri = headerExtensions[i].uri

\* headerExtensions.find(saved => kind and uri both equal) is not undefined
Duplicated(headerExtensions, headerExtension) ==
    \E i \in 1..Len(headerExtensions) :
        /\ headerExtension.kind = headerExtensions[i].kind
        /\ headerExtension.uri = headerExtensions[i].uri

\* for (const ext of m.ext || []) { ... if (!duplicated) push }
RECURSIVE GetHeaderExtensions(_, _, _, _)
GetHeaderExtensions(exts, i, kind, headerExtensions) ==
    IF i > Len(exts) THEN headerExtensions
    ELSE LET ext == exts[i]
             headerExtension == [kind |-> kind, uri |-> ext.uri, preferredId |-> ext.value]
         IN  IF ~Duplicated(headerExtensions, headerExtension)
             THEN GetHeaderExtensions(exts, i + 1, kind, Append(headerExtensions, headerExtension))
             ELSE GetHeaderExtensions(exts, i + 1, kind, headerExtensions)

\* for (const m of sdpObject.media) { ... }; st holds codecsMap and headerExtensions
RECURSIVE CapabilitiesLoop(_, _, _)
CapabilitiesLoop(media, j, st) ==
    IF j > Len(media) THEN st
    ELSE LET m == media[j]
             kind == m.type
         IN  IF kind # "audio" /\ kind # "video"
             THEN CapabilitiesLoop(media, j + 1, st)
             ELSE LET c1 == GetCodecs(m.rtp, 1, kind, st.codecsMap)
                      c2 == GetCodecParameters(m.fmtp, 1, c1)
                      c3 == GetRtcpFeedback(m.rtcpFb, 1, c2)
                      h  == GetHeaderExtensions(m.ext, 1, kind, st.headerExtensions)
                  IN  CapabilitiesLoop(media, j + 1, [codecsMap |-> c3, headerExtensions |-> h])

extractCapabilities(sdp) ==
    LET st == CapabilitiesLoop(sdp.media, 1, [codecsMap |-> <<>>, headerExtensions |-> <<>>])
    IN  [codecs |-> st.codecsMap,
         fecMechanisms |-> <<>>,
         headerExtensions |-> st.headerExtensions]

CallExtractCapabilities ==
    /\ called = "none"
    /\ called' = "extractCapabilities"
    /\ ret' = Returned(extractCapabilities(sdpObject))
    /\ UNCHANGED <<sdpObject, filterWithCapabilities, localFullCapabilities, rtxLoop>>

InitCaps ==
    /\ sdpObject \in CapDocuments(MaxCapLines)
    /\ filterWithCapabilities = NoCapabilities
    /\ localFullCapabilities = NoCapabilities
    /\ called = "none"
    /\ ret = NoRet
    /\ rtxLoop = NoLoop

NextCaps == CallExtractCapabilities

SpecCaps == InitCaps /\ [][NextCaps]_vars

\* Everything the audio/video sections declare, in document order.
RECURSIVE DeclaredRtp(_, _)
DeclaredRtp(media, j) ==
    IF j > Len(media) THEN <<>>
    ELSE IF media[j].type \in {"audio", "video"}
         THEN [i \in 1..Len(media[j].rtp) |-> [kind |-> media[j].type, rtp |-> media[j].rtp[i]]]
              \o DeclaredRtp(media, j + 1)
         ELSE DeclaredRtp(media, j + 1)

RECURSIVE DeclaredExt(_, _)
DeclaredExt(media, j) ==
    IF j > Len(media) THEN <<>>
    ELSE IF media[j].type \in {"audio", "video"}
         THEN [i \in 1..Len(media[j].ext) |-> [kind |-> media[j].type, ext |-> media[j].ext[i]]]
              \o DeclaredExt(media, j + 1)
         ELSE DeclaredExt(media, j + 1)

CapsReturned == called = "extractCapabilities" /\ ret.status = "returned"

\* C5: the codecs extractCapabilities returns have pairwise distinct
\* preferredPayloadType values, there is exactly one for every payload type an
\* audio/video section declares, and it carries the name, clock rate, kind and
\* channel count (1 when none is given) of the last entry declared for it.
C5_DistinctPayloadLastWins ==
    CapsReturned =>
        LET codecs == ret.value.codecs
            decl == DeclaredRtp(sdpObject.media, 1)
        IN  /\ \A i, j \in 1..Len(codecs) :
                  codecs[i].preferredPayloadType = codecs[j].preferredPayloadType => i = j
            /\ {codecs[i].preferredPayloadType : i \in 1..Len(codecs)}
                  = {decl[d].rtp.payload : d \in 1..Len(decl)}
            /\ \A i \in 1..Len(codecs) :
                  LET same == {d \in 1..Len(decl) :
                                  decl[d].rtp.payload = codecs[i].preferredPayloadType}
                      last == decl[CHOOSE d \in same : \A e \in same : e <= d]
                  IN  /\ codecs[i].name = last.rtp.codec
                      /\ codecs[i].clockRate = last.rtp.rate
                      /\ codecs[i].kind = last.kind
                      /\ codecs[i].numChannels
                            = (IF last.rtp.encoding = 0 THEN 1 ELSE last.rtp.encoding)

\* A payload type is declared twice, with different names and in sections of
\* different kinds, and the call has returned.
C5_Witness ==
    /\ CapsReturned
    /\ LET decl == DeclaredRtp(sdpObject.media, 1)
       IN  \E d, e \in 1..Len(decl) :
              /\ d < e
              /\ decl[d].rtp.payload = decl[e].rtp.payload
              /\ decl[d].rtp.codec # decl[e].rtp.codec
              /\ decl[d].kind # decl[e].kind

\* C6: the headerExtensions extractCapabilities returns are, in order, the
\* first declarations of the distinct (kind, uri) pairs of the audio/video
\* sections, each with the preferredId of that first declaration.
C6_HeaderExtensionsFirstWins ==
    CapsReturned =>
        LET decl == DeclaredExt(sdpObject.media, 1)
            IsFirst(d) == \A e \in 1..(d - 1) :
                            ~(decl[e].kind = decl[d].kind /\ decl[e].ext.uri = decl[d].ext.uri)
            firsts == {d \in 1..Len(decl) : IsFirst(d)}
            hs == ret.value.headerExtensions
        IN  /\ Len(hs) = Cardinality(firsts)
            /\ \A i \in 1..Len(hs) :
                  \E d \in firsts :
                      /\ Cardinality({e \in firsts : e <= d}) = i
                      /\ hs[i] = [kind |-> decl[d].kind, uri |-> decl[d].ext.uri,
                                  preferredId |-> decl[d].ext.value]

\* A (kind, uri) pair is declared twice with different ids, another pair is
\* declared between the two, and the call has returned.
C6_Witness ==
    /\ CapsReturned
    /\ LET decl == DeclaredExt(sdpObject.media, 1)
       IN  \E d, e \in 1..Len(decl) :
              /\ d + 1 < e
              /\ decl[d].kind = decl[e].kind
              /\ decl[d].ext.uri = decl[e].ext.uri
              /\ decl[d].ext.value # decl[e].ext.value
              /\ decl[d + 1].ext.uri # decl[d].ext.uri

-----------------------------------------------------------------------------
(* extractTrackInfos *)

\* Bound: the number of lines of a document given to extractTrackInfos.
MaxTrackLines == 5

\* a=ssrc-group entries; ssrcs is the space-separated list, as its tokens
\* already read as numbers (Number(token)).
SsrcGroupEntries == {[semantics |-> "FID", ssrcs |-> <<111, 222>>],
                     [semantics |-> "FID", ssrcs |-> <<111>>],
                     [semantics |-> "SIM", ssrcs |-> <<111, 222>>]}

\* a=ssrc entries; value is the attribute's value as its space-separated tokens.
SsrcEntries == {[id |-> 111, attribute |-> "cname", value |-> <<"c1">>],
                [id |-> 111, attribute |-> "msid", value |-> <<"stream1", "track1">>],
                [id |-> 222, attribute |-> "msid", value |-> <<"stream2">>],
                [id |-> 222, attribute |-> "mslabel", value |-> <<"stream3">>],
                [id |-> 111, attribute |-> "label", value |-> <<"track2">>],
                [id |-> 222, attribute |-> "x-other", value |-> <<"v">>]}

TrackLines == MediaLines \cup Lines("ssrcGroup", SsrcGroupEntries) \cup Lines("ssrc", SsrcEntries)

TrackDocuments(n) == {Document(ls) : ls \in SeqsUpTo(TrackLines, n)}

\* ssrcs[k] of a split list: <<n>>, or <<>> (undefined) past its end.
At(tokens, k) == IF k <= Len(tokens) THEN <<tokens[k]>> ELSE <<>>

\* for (const ssrcGroup of m.ssrcGroups || []) { ... }; st holds rtxMap and rtxSet
RECURSIVE GetRtxInformation(_, _, _)
GetRtxInformation(ssrcGroups, i, st) ==
    IF i > Len(ssrcGroups) THEN st
    ELSE LET ssrcGroup == ssrcGroups[i] IN
         IF ssrcGroup.semantics # "FID"
         THEN GetRtxInformation(ssrcGroups, i + 1, st)
         ELSE LET ssrc == At(ssrcGroup.ssrcs, 1)
                  rtxSsrc == At(ssrcGroup.ssrcs, 2)
              IN  GetRtxInformation(ssrcGroups, i + 1,
                      [st EXCEPT !.rtxMap = (ssrc :> rtxSsrc) @@ @,
                                 !.rtxSet = @ \cup {rtxSsrc}])

\* rtxMap.get(ssrc)
RtxMapGet(rtxMap, ssrc) == IF <<ssrc>> \in DOMAIN rtxMap THEN rtxMap[<<ssrc>>] ELSE <<>>

\* switch (ssrcObject.attribute) { ... }
SetAttribute(info, ssrcObject) ==
    CASE ssrcObject.attribute = "cname" ->
            [info EXCEPT !.cname = ssrcObject.value]
      [] ssrcObject.attribute = "msid" ->
            [info EXCEPT !.streamId = At(ssrcObject.value, 1),
                         !.trackId = At(ssrcObject.value, 2)]
      [] ssrcObject.attribute = "mslabel" ->
            [info EXCEPT !.streamId = ssrcObject.value]
      [] ssrcObject.attribute = "label" ->
            [info EXCEPT !.trackId = ssrcObject.value]
      [] OTHER -> info

\* infos.get(ssrc) is not undefined, and where it is found
InfosHas(infos, ssrc) == \E i \in 1..Len(infos) : infos[i].ssrc = ssrc
InfosIndex(infos, ssrc) == CHOOSE i \in 1..Len(infos) : infos[i].ssrc = ssrc

\* for (const ssrcObject of m.ssrcs || []) { ... }; st holds infos too
RECURSIVE GetSsrcs(_, _, _, _)
GetSsrcs(ssrcs, i, kind, st) ==
    IF i > Len(ssrcs) THEN st
    ELSE LET ssrcObject == ssrcs[i]
             ssrc == ssrcObject.id
         IN  IF <<ssrc>> \in st.rtxSet
             THEN GetSsrcs(ssrcs, i + 1, kind, st)
             ELSE LET infos == IF InfosHas(st.infos, ssrc)
                               THEN st.infos
                               ELSE Append(st.infos,
                                        [kind |-> kind,
                                         rtxSsrc |-> RtxMapGet(st.rtxMap, ssrc),
                                         ssrc |-> ssrc,
                                         cname |-> <<>>, streamId |-> <<>>, trackId |-> <<>>])
                      k == InfosIndex(infos, ssrc)
                  IN  GetSsrcs(ssrcs, i + 1, kind,
                          [st EXCEPT !.infos = [infos EXCEPT ![k] = SetAttribute(@, ssrcObject)]])

\* for (const m of sdpObject.media) { ... }
RECURSIVE TrackInfosLoop(_, _, _)
TrackInfosLoop(media, j, st) ==
    IF j > Len(media) THEN st
    ELSE LET m == media[j]
             kind == m.type
         IN  IF kind # "audio" /\ kind # "video"
             THEN TrackInfosLoop(media, j + 1, st)
             ELSE TrackInfosLoop(media, j + 1,
                      GetSsrcs(m.ssrcs, 1, kind, GetRtxInformation(m.ssrcGroups, 1, st)))

extractTrackInfos(sdp) ==
    TrackInfosLoop(sdp.media, 1, [infos |-> <<>>, rtxMap |-> <<>>, rtxSet |-> {}]).infos

CallExtractTrackInfos ==
    /\ called = "none"
    /\ called' = "extractTrackInfos"
    /\ ret' = Returned(extractTrackInfos(sdpObject))
    /\ UNCHANGED <<sdpObject, filterWithCapabilities, localFullCapabilities, rtxLoop>>

InitTrack ==
    /\ sdpObject \in TrackDocuments(MaxTrackLines)
    /\ filterWithCapabilities = NoCapabilities
    /\ localFullCapabilities = NoCapabilities
    /\ called = "none"
    /\ ret = NoRet
    /\ rtxLoop = NoLoop

NextTrack == CallExtractTrackInfos

SpecTrack == InitTrack /\ [][NextTrack]_vars

\* C2: in the map extractTrackInfos returns, no entry's ssrc is the rtxSsrc of
\* an entry of the same map.
C2_NoRtxSsrcAsTrack ==
    (called = "extractTrackInfos" /\ ret.status = "returned") =>
        \A i, j \in 1..Len(ret.value) : <<ret.value[i].ssrc>> # ret.value[j].rtxSsrc

-----------------------------------------------------------------------------
(* getFirstActiveMediaSection, extractDtlsParameters, extractIceCandidates, *)
(* extractIceParameters                                                     *)

\* Bound: the number of media sections of a document given to these three.
MaxTransportMedia == 2

Setups == {"active", "passive", "actpass", "holdconn", "undefined"}

\* The candidates of section i: an RTP and an RTCP candidate over UDP and an
\* RTP candidate over TCP.
CandidatesOf(i) ==
    <<[foundation |-> i, component |-> 1, transport |-> "UDP", priority |-> 2113667327,
       ip |-> "10.0.0.1", port |-> 10000, type |-> "host"],
      [foundation |-> i, component |-> 2, transport |-> "UDP", priority |-> 2113667326,
       ip |-> "10.0.0.1", port |-> 10001, type |-> "host"],
      [foundation |-> i, component |-> 1, transport |-> "tcp", priority |-> 1019216383,
       ip |-> "10.0.0.1", port |-> 4443, type |-> "host"]>>

\* Section i of a document: its password, fingerprint and candidates name i.
TransportSection(i, port, iceUfrag, setup, hasFingerprint, hasCandidates) ==
    [type |-> "audio", port |-> port, iceUfrag |-> iceUfrag, icePwd |-> <<"pwd", i>>,
     setup |-> setup,
     fingerprint |-> IF hasFingerprint
                     THEN <<[type |-> "sha-256", hash |-> <<"media", i>>]>> ELSE <<>>,
     candidates |-> IF hasCandidates THEN <<CandidatesOf(i)>> ELSE <<>>]

\* Documents that vary what extractDtlsParameters reads.
DtlsChoices == {<<0, "ufrag">>, <<9, "ufrag">>} \X Setups \X BOOLEAN
DtlsMedia(c) ==
    [i \in 1..Len(c) |-> TransportSection(i, c[i][1][1], c[i][1][2], c[i][2], c[i][3], TRUE)]

\* Documents that vary what the ICE extractors read.
IceChoices == ({0, 9} \X {"undefined", "", "ufrag"}) \X BOOLEAN
IceMedia(c) ==
    [i \in 1..Len(c) |-> TransportSection(i, c[i][1][1], c[i][1][2], "actpass", TRUE, c[i][2])]

SessionFingerprints == {<<>>, <<[type |-> "sha-1", hash |-> <<"session", 0>>]>>}

TransportDocuments(n) ==
    {[media |-> DtlsMedia(c), fingerprint |-> f, icelite |-> "undefined"] :
        c \in SeqsUpTo(DtlsChoices, n), f \in SessionFingerprints}
    \cup
    {[media |-> IceMedia(c), fingerprint |-> <<>>, icelite |-> l] :
        c \in SeqsUpTo(IceChoices, n), l \in {"undefined", "ice-lite"}}

\* A string in a boolean position
Truthy(str) == str # "undefined" /\ str # ""

\* A plausible slip: the port is not looked at.
IsActiveAnyPort(m) == Truthy(m.iceUfrag)

\* m => m.iceUfrag && m.port !== 0
IsActive(m) == Truthy(m.iceUfrag) /\ m.port # 0

\* sdpObject.media.find(...): <<m>>, or <<>> when find gives undefined
getFirstActiveMediaSection(sdp) ==
    LET active == {i \in 1..Len(sdp.media) : IsActive(sdp.media[i])}
    IN  IF active = {} THEN <<>>
        ELSE <<sdp.media[CHOOSE i \in active : \A j \in active : i <= j]>>

\* switch (media.setup) { ... } with no default: role stays undefined
RoleOf(setup) ==
    CASE setup = "active"  -> "client"
      [] setup = "passive" -> "server"
      [] setup = "actpass" -> "auto"
      [] OTHER             -> "undefined"

\* Reading a property of undefined throws a TypeError.
extractDtlsParameters(sdp) ==
    LET found == getFirstActiveMediaSection(sdp) IN
    IF found = <<>> THEN Threw
    ELSE LET media == found[1]
             fingerprint == IF media.fingerprint # <<>> THEN media.fingerprint
                            ELSE sdp.fingerprint
             role == RoleOf(media.setup)
         IN  IF fingerprint = <<>> THEN Threw
             ELSE Returned([role |-> role,
                            fingerprints |-> <<[algorithm |-> fingerprint[1].type,
                                                value |-> fingerprint[1].hash]>>])

\* String.prototype.toLowerCase on the transport names
TransportToLowerCase(str) ==
    CASE str = "UDP" -> "udp"
      [] str = "TCP" -> "tcp"
      [] OTHER -> str

\* for (const c of media.candidates) { ... }
RECURSIVE GetCandidates(_, _, _)
GetCandidates(cs, i, candidates) ==
    IF i > Len(cs) THEN candidates
    ELSE LET c == cs[i] IN
         IF c.component # 1
         THEN GetCandidates(cs, i + 1, candidates)
         ELSE GetCandidates(cs, i + 1,
                  Append(candidates,
                         [foundation |-> c.foundation,
                          ip |-> c.ip,
                          port |-> c.port,
                          priority |-> c.priority,
                          protocol |-> TransportToLowerCase(c.transport),
                          type |-> c.type]))

\* Iterating undefined throws a TypeError.
extractIceCandidates(sdp) ==
    LET found == getFirstActiveMediaSection(sdp) IN
    IF found = <<>> THEN Threw
    ELSE LET media == found[1] IN
         IF media.candidates = <<>> THEN Threw
         ELSE Returned(GetCandidates(media.candidates[1], 1, <<>>))

extractIceParameters(sdp) ==
    LET found == getFirstActiveMediaSection(sdp) IN
    IF found = <<>> THEN Threw
    ELSE LET media == found[1] IN
         Returned([icelite |-> sdp.icelite = "ice-lite",
                   password |-> media.icePwd,
                   usernameFragment |-> media.iceUfrag])

CallExtractDtlsParameters ==
    /\ called = "none"
    /\ called' = "extractDtlsParameters"
    /\ ret' = extractDtlsParameters(sdpObject)
    /\ UNCHANGED <<sdpObject, filterWithCapabilities, localFullCapabilities, rtxLoop>>

CallExtractIceCandidates ==
    /\ called = "none"
    /\ called' = "extractIceCandidates"
    /\ ret' = extractIceCandidates(sdpObject)
    /\ UNCHANGED <<sdpObject, filterWithCapabilities, localFullCapabilities, rtxLoop>>

CallExtractIceParameters ==
    /\ called = "none"
    /\ called' = "extractIceParameters"
    /\ ret' = extractIceParameters(sdpObject)
    /\ UNCHANGED <<sdpObject, filterWithCapabilities, localFullCapabilities, rtxLoop>>

InitTransport ==
    /\ sdpObject \in TransportDocuments(MaxTransportMedia)
    /\ filterWithCapabilities = NoCapabilities
    /\ localFullCapabilities = NoCapabilities
    /\ called = "none"
    /\ ret = NoRet
    /\ rtxLoop = NoLoop

NextTransport ==
    \/ CallExtractDtlsParameters
    \/ CallExtractIceCandidates
    \/ CallExtractIceParameters

SpecTransport == InitTransport /\ [][NextTransport]_vars

\* The sections that have an ICE user fragment and a nonzero port.
Qualifying == {i \in 1..Len(sdpObject.media) :
                  /\ sdpObject.media[i].iceUfrag \notin {"undefined", ""}
                  /\ sdpObject.media[i].port # 0}
FirstQualifying == CHOOSE i \in Qualifying : \A j \in Qualifying : i <= j

TransportCalled ==
    called \in {"extractDtlsParameters", "extractIceCandidates", "extractIceParameters"}

\* C3: extractDtlsParameters maps setup "active" to client, "passive" to
\* server and "actpass" to auto, and for any other or missing setup the call
\* fails instead of returning a record.
C3_UnknownSetupFails ==
    (called = "extractDtlsParameters" /\ Qualifying # {}) =>
        LET setup == sdpObject.media[FirstQualifying].setup IN
        /\ (ret.status = "returned" /\ setup = "active") => ret.value.role = "client"
        /\ (ret.status = "returned" /\ setup = "passive") => ret.value.role = "server"
        /\ (ret.status = "returned" /\ setup = "actpass") => ret.value.role = "auto"
        /\ setup \notin {"active", "passive", "actpass"} => ret.status = "threw"

\* C4: when no section has both an ICE user fragment and a nonzero port,
\* each of the three extractors throws; otherwise whatever one of them
\* returns is read from the first such section, in document order.
C4_FirstActiveSectionOrFailure ==
    TransportCalled =>
        IF Qualifying = {} THEN ret.status = "threw"
        ELSE ret.status = "returned" =>
            LET m == sdpObject.media[FirstQualifying] IN
            CASE called = "extractDtlsParameters" ->
                    /\ Len(ret.value.fingerprints) = 1
                    /\ ret.value.fingerprints[1].value
                          = (IF m.fingerprint # <<>> THEN m.fingerprint[1].hash
                             ELSE sdpObject.fingerprint[1].hash)
                    /\ ret.value.role = RoleOf(m.setup)
              [] called = "extractIceParameters" ->
                    /\ ret.value.password = <<"pwd", FirstQualifying>>
                    /\ ret.value.usernameFragment = m.iceUfrag
              [] called = "extractIceCandidates" ->
                    /\ ret.value # <<>>
                    /\ \A i \in 1..Len(ret.value) : ret.value[i].foundation = FirstQualifying

\* A section qualifies, an earlier one has a user fragment but port 0, and a
\* call has returned.
C4_Witness ==
    /\ TransportCalled
    /\ ret.status = "returned"
    /\ Qualifying # {}
    /\ \E i \in 1..Len(sdpObject.media) :
          /\ i < FirstQualifying
          /\ sdpObject.media[i].iceUfrag = "ufrag"
          /\ sdpObject.media[i].port = 0

-----------------------------------------------------------------------------
(* getLocalCapabilities *)

\* Bound: the number of codecs of the remote capability record.
MaxRemoteCodecs == 3

\* Bound: the number of header extensions of the remote capability record.
MaxRemoteExtensions == 2

Fb(type, parameter) == [parameter |-> parameter, type |-> type]

Codec(name, kind, clockRate, numChannels, pt, parameters, rtcpFeedback) ==
    [clockRate |-> clockRate, kind |-> kind, mimeType |-> <<kind, name>>, name |-> name,
     numChannels |-> numChannels, parameters |-> parameters,
     preferredPayloadType |-> pt, rtcpFeedback |-> rtcpFeedback]

\* Codecs a remote record may list: primaries with different spellings, clock
\* rates and payload types, and rtx entries with and without apt.
RemoteCodecs ==
    {Codec("VP8", "video", 90000, 1, 96, <<>>, <<Fb("nack", ""), Fb("ccm", "fir"), Fb("nack", "")>>),
     Codec("vp8", "video", 90000, 1, 97, <<>>, <<Fb("goog-remb", ""), Fb("nack", "pli")>>),
     Codec("opus", "audio", 48000, 2, 98,
           <<<<"minptime", 10>>, <<"useinbandfec", 1>>, <<"stereo", 1>>>>, <<>>),
     Codec("CN", "audio", 16000, 1, 96, <<>>, <<>>),
     Codec("H264", "video", 90000, 1, 97, <<>>, <<Fb("nack", "")>>),
     Codec("rtx", "video", 90000, 1, 97, <<<<"apt", 96>>>>, <<>>),
     Codec("rtx", "video", 90000, 1, 98, <<<<"apt", 97>>>>, <<>>),
     Codec("RTX", "video", 90000, 1, 96, <<<<"apt", 96>>>>, <<>>),
     Codec("rtx", "video", 90000, 1, 99, <<>>, <<>>)}

\* Codec lists RTCRtpReceiver.getCapabilities() may give.
LocalCodecLists ==
    {<<Codec("VP8", "video", 90000, 0, 100, <<>>, <<Fb("ccm", "fir"), Fb("nack", ""), Fb("nack", "pli")>>),
       Codec("opus", "audio", 48000, 2, 101, <<<<"useinbandfec", 1>>, <<"minptime", 20>>>>, <<>>)>>,
     <<Codec("CN", "audio", 8000, 1, 13, <<>>, <<>>),
       Codec("CN", "audio", 16000, 1, 105, <<>>, <<>>),
       Codec("VP8", "video", 90000, 1, 100, <<>>, <<Fb("nack", "")>>)>>,
     <<Codec("OPUS", "audio", 48000, 2, 101, <<>>, <<>>),
       Codec("VP8", "video", 90000, 1, 100, <<>>, <<>>),
       Codec("VP8", "video", 90000, 2, 107, <<>>, <<Fb("nack", "")>>)>>}

Extension(kind, uri, preferredId, preferredEncrypt) ==
    [kind |-> kind, uri |-> uri, preferredId |-> preferredId, preferredEncrypt |-> preferredEncrypt]

\* preferredEncrypt: <<>> when the record has none (as extractCapabilities gives)
RemoteExtensions ==
    {Extension("video", "urn:a", 1, <<>>), Extension("video", "urn:a", 2, <<TRUE>>),
     Extension("audio", "urn:a", 3, <<FALSE>>), Extension("video", "urn:c", 4, <<>>)}

LocalExtensions ==
    <<Extension("audio", "urn:a", 7, <<>>), Extension("video", "urn:b", 8, <<>>),
      Extension("video", "urn:a", 9, <<>>)>>

\* Remote records that vary the codecs, and remote records that vary the
\* header extensions and FEC mechanisms.
RemoteCapabilities(n, x) ==
    {[codecs |-> cs, fecMechanisms |-> <<>>,
      headerExtensions |-> <<Extension("video", "urn:a", 1, <<>>)>>] :
        cs \in SeqsUpTo(RemoteCodecs, n)}
    \cup
    {[codecs |-> <<>>, fecMechanisms |-> f, headerExtensions |-> hs] :
        f \in {<<>>, <<"flexfec", "red">>}, hs \in SeqsUpTo(RemoteExtensions, x)}

LocalCapabilities ==
    {[codecs |-> cs, fecMechanisms |-> <<"red", "ulpfec">>, headerExtensions |-> LocalExtensions] :
        cs \in LocalCodecLists}

\* String.prototype.toLowerCase on the codec names
ToLowerCase(str) ==
    CASE str = "VP8" -> "vp8"
      [] str = "RTX" -> "rtx"
      [] str = "OPUS" -> "opus"
      [] str = "CN" -> "cn"
      [] str = "H264" -> "h264"
      [] OTHER -> str

\* parameters[name]: <<value>>, or <<>> when the object has no such property
ParameterGet(parameters, name) ==
    IF \E i \in 1..Len(parameters) : parameters[i][1] = name
    THEN <<parameters[CHOOSE i \in 1..Len(parameters) : parameters[i][1] = name][2]>>
    ELSE <<>>

\* remoteRtxMap.has(key), and where remoteRtxMap.get(key) is found
RemoteRtxMapHas(remoteRtxMap, key) == \E i \in 1..Len(remoteRtxMap) : remoteRtxMap[i][1] = key
RemoteRtxMapIndex(remoteRtxMap, key) == CHOOSE i \in 1..Len(remoteRtxMap) : remoteRtxMap[i][1] = key

\* remoteRtxMap.set(remoteCodec.parameters.apt, remoteCodec.preferredPayloadType)
RemoteRtxMapSet(remoteRtxMap, remoteCodec) ==
    LET apt == ParameterGet(remoteCodec.parameters, "apt")
        entry == <<apt, remoteCodec.preferredPayloadType>>
    IN  IF RemoteRtxMapHas(remoteRtxMap, apt)
        THEN [remoteRtxMap EXCEPT ![RemoteRtxMapIndex(remoteRtxMap, apt)] = entry]
        ELSE Append(remoteRtxMap, entry)

\* A plausible slip: the local codec is looked up by name alone and then
\* dropped when its kind or clock rate differs.
FindLocalCodecByName(codecs, remoteCodec) ==
    LET byName == {i \in 1..Len(codecs) :
                      ToLowerCase(codecs[i].name) = ToLowerCase(remoteCodec.name)}
        first == CHOOSE i \in byName : \A j \in byName : i <= j
    IN  IF byName = {} THEN <<>>
        ELSE IF codecs[first].kind = remoteCodec.kind
                /\ codecs[first].clockRate = remoteCodec.clockRate
             THEN <<codecs[first]>> ELSE <<>>

\* localFullCapabilities.codecs.find(codec => name, kind and clockRate match)
FindLocalCodec(codecs, remoteCodec) ==
    LET matching == {i \in 1..Len(codecs) :
                        /\ ToLowerCase(codecs[i].name) = ToLowerCase(remoteCodec.name)
                        /\ codecs[i].kind = remoteCodec.kind
                        /\ codecs[i].clockRate = remoteCodec.clockRate}
    IN  IF matching = {} THEN <<>>
        ELSE <<codecs[CHOOSE i \in matching : \A j \in matching : i <= j]>>

\* The two nested loops over Object.keys: a remote parameter is used when the
\* local codec has the same name with the same value.
RECURSIVE GetParameters(_, _, _, _)
GetParameters(remoteParameters, i, localParameters, parameters) ==
    IF i > Len(remoteParameters) THEN parameters
    ELSE LET remoteParamName == remoteParameters[i][1]
             remoteParamValue == remoteParameters[i][2]
         IN  IF \E j \in 1..Len(localParameters) :
                    /\ localParameters[j][1] = remoteParamName
                    /\ localParameters[j][2] = remoteParamValue
             THEN GetParameters(remoteParameters, i + 1, localParameters,
                      Append(parameters, <<remoteParamName, remoteParamValue>>))
             ELSE GetParameters(remoteParameters, i + 1, localParameters, parameters)

\* A plausible slip: the loop runs over the local feedback and looks each
\* entry up in the remote one.
RECURSIVE GetFeedbackLocalOrder(_, _, _, _)
GetFeedbackLocalOrder(remoteFeedback, i, localFeedback, rtcpFeedback) ==
    IF i > Len(localFeedback) THEN rtcpFeedback
    ELSE IF \E j \in 1..Len(remoteFeedback) :
                /\ remoteFeedback[j].type = localFeedback[i].type
                /\ remoteFeedback[j].parameter = localFeedback[i].parameter
         THEN GetFeedbackLocalOrder(remoteFeedback, i + 1, localFeedback,
                  Append(rtcpFeedback, localFeedback[i]))
         ELSE GetFeedbackLocalOrder(remoteFeedback, i + 1, localFeedback, rtcpFeedback)

\* for (const remoteFb of remoteCodec.rtcpFeedback) { find; push(localFb) }
RECURSIVE GetFeedback(_, _, _, _)
GetFeedback(remoteFeedback, i, localFeedback, rtcpFeedback) ==
    IF i > Len(remoteFeedback) THEN rtcpFeedback
    ELSE LET remoteFb == remoteFeedback[i]
             found == {j \in 1..Len(localFeedback) :
                          /\ localFeedback[j].type = remoteFb.type
                          /\ localFeedback[j].parameter = remoteFb.parameter}
         IN  IF found # {}
             THEN GetFeedback(remoteFeedback, i + 1, localFeedback,
                      Append(rtcpFeedback,
                             localFeedback[CHOOSE j \in found : \A k \in found : j <= k]))
             ELSE GetFeedback(remoteFeedback, i + 1, localFeedback, rtcpFeedback)

\* A plausible slip: the negotiated codec keeps the local payload type.
NegotiatedCodecLocalPayload(localCodec, remoteCodec) ==
    [clockRate |-> localCodec.clockRate,
     kind |-> localCodec.kind,
     mimeType |-> <<localCodec.kind, localCodec.name>>,
     name |-> localCodec.name,
     numChannels |-> IF localCodec.numChannels # 0 THEN localCodec.numChannels ELSE 1,
     parameters |-> GetParameters(remoteCodec.parameters, 1, localCodec.parameters, <<>>),
     preferredPayloadType |-> localCodec.preferredPayloadType,
     rtcpFeedback |-> GetFeedback(remoteCodec.rtcpFeedback, 1, localCodec.rtcpFeedback, <<>>)]

\* const codec = { ... } with its parameters and feedback filled in
NegotiatedCodec(localCodec, remoteCodec) ==
    [clockRate |-> localCodec.clockRate,
     kind |-> localCodec.kind,
     mimeType |-> <<localCodec.kind, localCodec.name>>,
     name |-> localCodec.name,
     numChannels |-> IF localCodec.numChannels # 0 THEN localCodec.numChannels ELSE 1,
     parameters |-> GetParameters(remoteCodec.parameters, 1, localCodec.parameters, <<>>),
     preferredPayloadType |-> remoteCodec.preferredPayloadType,
     rtcpFeedback |-> GetFeedback(remoteCodec.rtcpFeedback, 1, localCodec.rtcpFeedback, <<>>)]

\* "Set codecs": for (const remoteCodec of filterWithCapabilities.codecs) { ... };
\* st holds localCapabilities.codecs and remoteRtxMap
RECURSIVE SetCodecs(_, _, _, _)
SetCodecs(remoteCodecs, i, localCodecs, st) ==
    IF i > Len(remoteCodecs) THEN st
    ELSE LET remoteCodec == remoteCodecs[i]
             remoteCodecName == ToLowerCase(remoteCodec.name)
             localCodec == FindLocalCodec(localCodecs, remoteCodec)
         IN  IF remoteCodecName = "rtx"
             THEN SetCodecs(remoteCodecs, i + 1, localCodecs,
                      [st EXCEPT !.remoteRtxMap = RemoteRtxMapSet(@, remoteCodec)])
             ELSE IF localCodec = <<>>
             THEN SetCodecs(remoteCodecs, i + 1, localCodecs, st)
             ELSE SetCodecs(remoteCodecs, i + 1, localCodecs,
                      [st EXCEPT !.codecs = Append(@, NegotiatedCodec(localCodec[1], remoteCodec))])

\* A plausible slip: the synthesized entry is given the payload type of the
\* codec it belongs to.
RtxCodecOwnPayload(codec, remoteRtxMap) ==
    [clockRate |-> codec.clockRate,
     kind |-> codec.kind,
     mimeType |-> <<codec.kind, "rtx">>,
     name |-> "rtx",
     parameters |-> <<<<"apt", codec.preferredPayloadType>>>>,
     preferredPayloadType |-> codec.preferredPayloadType,
     rtcpFeedback |-> <<>>]

\* const rtxCodec = { ... }; remoteRtxMap has codec.preferredPayloadType
RtxCodec(codec, remoteRtxMap) ==
    [clockRate |-> codec.clockRate,
     kind |-> codec.kind,
     mimeType |-> <<codec.kind, "rtx">>,
     name |-> "rtx",
     parameters |-> <<<<"apt", codec.preferredPayloadType>>>>,
     preferredPayloadType |->
         remoteRtxMap[RemoteRtxMapIndex(remoteRtxMap, <<codec.preferredPayloadType>>)][2],
     rtcpFeedback |-> <<>>]

\* One iteration of "Add RTX for video codecs": the for...of reads the element
\* at its index of the array as it is now, entries pushed by earlier
\* iterations included. l holds the array, the index and remoteRtxMap.
RtxLoopDone(l) == l.i > Len(l.codecs)

RtxLoopIteration(l) ==
    LET codec == l.codecs[l.i]
        payloadType == codec.preferredPayloadType
    IN  IF ~RemoteRtxMapHas(l.remoteRtxMap, <<payloadType>>)
        THEN [l EXCEPT !.i = @ + 1]
        ELSE [l EXCEPT !.i = @ + 1,
                       !.codecs = Append(@, RtxCodec(codec, l.remoteRtxMap))]

\* The state the RTX loop starts in.
RtxLoopStart(remote, local) ==
    LET st == SetCodecs(remote.codecs, 1, local.codecs, [codecs |-> <<>>, remoteRtxMap |-> <<>>])
    IN  [codecs |-> st.codecs, i |-> 1, remoteRtxMap |-> st.remoteRtxMap,
         primaries |-> Len(st.codecs), running |-> TRUE]

\* A loop that ends appends, for each primary, the entries of a chain of
\* distinct keys of remoteRtxMap: at most primaries * Len(remoteRtxMap). A loop
\* that has appended more goes on for ever.
RtxLoopRunsAway(l) == Len(l.codecs) - l.primaries > l.primaries * Len(l.remoteRtxMap)

\* The whole loop: the array it leaves, or that it never ends.
RECURSIVE RtxLoop(_)
RtxLoop(l) ==
    IF RtxLoopDone(l) THEN [diverges |-> FALSE, codecs |-> l.codecs]
    ELSE IF RtxLoopRunsAway(l) THEN [diverges |-> TRUE, codecs |-> <<>>]
    ELSE RtxLoop(RtxLoopIteration(l))

\* "Add RTP header extensions"
RECURSIVE AddHeaderExtensions(_, _, _, _)
AddHeaderExtensions(remoteExtensions, i, localExtensions, headerExtensions) ==
    IF i > Len(remoteExtensions) THEN headerExtensions
    ELSE LET remoteExtension == remoteExtensions[i]
             found == {j \in 1..Len(localExtensions) :
                          /\ localExtensions[j].kind = remoteExtension.kind
                          /\ localExtensions[j].uri = remoteExtension.uri}
         IN  IF found # {}
             THEN LET localExtension == localExtensions[CHOOSE j \in found : \A k \in found : j <= k]
                  IN  AddHeaderExtensions(remoteExtensions, i + 1, localExtensions,
                          Append(headerExtensions,
                                 [kind |-> localExtension.kind,
                                  preferredEncrypt |-> remoteExtension.preferredEncrypt = <<TRUE>>,
                                  preferredId |-> remoteExtension.preferredId,
                                  uri |-> localExtension.uri]))
             ELSE AddHeaderExtensions(remoteExtensions, i + 1, localExtensions, headerExtensions)

\* "Add FEC mechanisms"
AddFecMechanisms(remoteFecMechanisms, localFecMechanisms) ==
    LET Supported(fec) == \E j \in 1..Len(localFecMechanisms) : localFecMechanisms[j] = fec
    IN  SelectSeq(remoteFecMechanisms, Supported)

\* What follows the RTX loop, given the codecs it left.
FinishLocalCapabilities(codecs, remote, local) ==
    [codecs |-> codecs,
     fecMechanisms |-> AddFecMechanisms(remote.fecMechanisms, local.fecMechanisms),
     headerExtensions |->
         AddHeaderExtensions(remote.headerExtensions, 1, local.headerExtensions, <<>>)]

getLocalCapabilities(remote, local) ==
    LET loop == RtxLoop(RtxLoopStart(remote, local))
    IN  IF loop.diverges THEN Diverges
        ELSE Returned(FinishLocalCapabilities(loop.codecs, remote, local))

CallGetLocalCapabilities ==
    /\ called = "none"
    /\ called' = "getLocalCapabilities"
    /\ ret' = getLocalCapabilities(filterWithCapabilities, localFullCapabilities)
    /\ UNCHANGED <<sdpObject, filterWithCapabilities, localFullCapabilities, rtxLoop>>

InitNegotiation ==
    /\ sdpObject = NoDocument
    /\ filterWithCapabilities \in RemoteCapabilities(MaxRemoteCodecs, MaxRemoteExtensions)
    /\ localFullCapabilities \in LocalCapabilities
    /\ called = "none"
    /\ ret = NoRet
    /\ rtxLoop = NoLoop

NextNegotiation == CallGetLocalCapabilities

SpecNegotiation == InitNegotiation /\ [][NextNegotiation]_vars

\* The remote codecs that are not rtx entries and have a local counterpart.
IsMatched(remoteCodec) ==
    /\ ToLowerCase(remoteCodec.name) # "rtx"
    /\ FindLocalCodec(localFullCapabilities.codecs, remoteCodec) # <<>>
Matched == SelectSeq(filterWithCapabilities.codecs, IsMatched)

NegotiationReturned == called = "getLocalCapabilities" /\ ret.status = "returned"

\* The sequences with the elements of s in another order.
Reorderings(s) ==
    {[i \in 1..Len(s) |-> s[f[i]]] :
        f \in {g \in [1..Len(s) -> 1..Len(s)] : \A i, j \in 1..Len(s) : g[i] = g[j] => i = j}}

PayloadTypes(outcome) ==
    [status |-> outcome.status,
     payloadTypes |-> IF outcome.status = "returned"
                      THEN [i \in 1..Len(outcome.value.codecs) |->
                               outcome.value.codecs[i].preferredPayloadType]
                      ELSE <<>>]

\* C7: for the same remote record, every permutation of the local codec list
\* gives the same sequence of negotiated preferredPayloadType values.
C7_LocalOrderIndependent ==
    called = "getLocalCapabilities" =>
        \A q \in Reorderings(localFullCapabilities.codecs) :
            PayloadTypes(getLocalCapabilities(filterWithCapabilities,
                                              [localFullCapabilities EXCEPT !.codecs = q]))
                = PayloadTypes(ret)

\* The call has returned codecs, and another order of the local list gives a
\* different result.
C7_Witness ==
    /\ NegotiationReturned
    /\ Len(ret.value.codecs) >= 2
    /\ \E q \in Reorderings(localFullCapabilities.codecs) :
          getLocalCapabilities(filterWithCapabilities,
                               [localFullCapabilities EXCEPT !.codecs = q]) # ret

HasPair(feedback, fb) ==
    \E j \in 1..Len(feedback) : feedback[j].type = fb.type /\ feedback[j].parameter = fb.parameter

\* C8 as stated: a negotiated codec's rtcpFeedback holds only entries the
\* remote codec also has, in the order in which the local codec declares them.
C8_FeedbackInLocalOrder ==
    NegotiationReturned =>
        \A k \in 1..Len(Matched) :
            LET localFeedback == FindLocalCodec(localFullCapabilities.codecs, Matched[k])[1].rtcpFeedback
                kept == ret.value.codecs[k].rtcpFeedback
                Position(fb) == CHOOSE j \in 1..Len(localFeedback) : localFeedback[j] = fb
            IN  /\ \A i \in 1..Len(kept) :
                      HasPair(Matched[k].rtcpFeedback, kept[i]) /\ HasPair(localFeedback, kept[i])
                /\ \A i, j \in 1..Len(kept) : i < j => Position(kept[i]) <= Position(kept[j])

\* C8 amended: a negotiated codec's rtcpFeedback holds only entries the remote
\* codec also has, and it is, in the order in which the remote codec declares
\* them, one local entry for each remote entry that has a local counterpart.
C8_FeedbackInRemoteOrder ==
    NegotiationReturned =>
        \A k \in 1..Len(Matched) :
            LET localFeedback == FindLocalCodec(localFullCapabilities.codecs, Matched[k])[1].rtcpFeedback
                kept == ret.value.codecs[k].rtcpFeedback
                IsLocal(fb) == HasPair(localFeedback, fb)
            IN  /\ \A i \in 1..Len(kept) :
                      HasPair(Matched[k].rtcpFeedback, kept[i]) /\ HasPair(localFeedback, kept[i])
                /\ kept = SelectSeq(Matched[k].rtcpFeedback, IsLocal)

\* A negotiated codec keeps two different feedback entries that the local
\* codec declares in the other order.
C8_Witness ==
    /\ NegotiationReturned
    /\ \E k \in 1..Len(Matched) :
          LET localFeedback == FindLocalCodec(localFullCapabilities.codecs, Matched[k])[1].rtcpFeedback
              kept == ret.value.codecs[k].rtcpFeedback
          IN  \E i, j \in 1..Len(kept) : \E a, b \in 1..Len(localFeedback) :
                  /\ i < j /\ b < a
                  /\ kept[i] = localFeedback[a] /\ kept[j] = localFeedback[b]
                  /\ kept[i] # kept[j]

\* C9: the result's codecs are the negotiated primaries, one for each matched
\* remote codec, in remote order and with the remote preferredPayloadType,
\* followed only by synthesized rtx entries; its header extensions are those
\* of the remote record that have a local counterpart, in remote order.
C9_ResultOrder ==
    NegotiationReturned =>
        LET codecs == ret.value.codecs
            hs == ret.value.headerExtensions
            IsSupported(e) ==
                \E j \in 1..Len(localFullCapabilities.headerExtensions) :
                    /\ localFullCapabilities.headerExtensions[j].kind = e.kind
                    /\ localFullCapabilities.headerExtensions[j].uri = e.uri
            supported == SelectSeq(filterWithCapabilities.headerExtensions, IsSupported)
        IN  /\ Len(codecs) >= Len(Matched)
            /\ \A i \in 1..Len(Matched) :
                  /\ codecs[i].preferredPayloadType = Matched[i].preferredPayloadType
                  /\ ToLowerCase(codecs[i].name) = ToLowerCase(Matched[i].name)
                  /\ codecs[i].kind = Matched[i].kind
            /\ \A i \in (Len(Matched) + 1)..Len(codecs) :
                  codecs[i].name = "rtx" /\ ParameterGet(codecs[i].parameters, "apt") # <<>>
            /\ Len(hs) = Len(supported)
            /\ \A i \in 1..Len(hs) :
                  /\ hs[i].kind = supported[i].kind
                  /\ hs[i].uri = supported[i].uri
                  /\ hs[i].preferredId = supported[i].preferredId

\* The remote record lists an rtx entry before a primary that is matched, and
\* the result holds two primaries, a synthesized rtx entry and an extension.
C9_Witness ==
    /\ NegotiationReturned
    /\ Len(Matched) >= 2
    /\ Len(ret.value.codecs) > Len(Matched)
    /\ Len(ret.value.headerExtensions) >= 1
    /\ \E i, j \in 1..Len(filterWithCapabilities.codecs) :
          /\ i < j
          /\ ToLowerCase(filterWithCapabilities.codecs[i].name) = "rtx"
          /\ IsMatched(filterWithCapabilities.codecs[j])

-----------------------------------------------------------------------------
(* getLocalCapabilities, one iteration of its RTX loop at a time, on remote *)
(* records whose payload types are pairwise distinct, as those that         *)
(* extractCapabilities returns are.                                         *)

\* Bound: the length of localCapabilities.codecs beyond which the model stops
\* following the RTX loop.
MaxLoopCodecs == 8

DistinctPayloadTypes(codecs) ==
    \A i, j \in 1..Len(codecs) :
        codecs[i].preferredPayloadType = codecs[j].preferredPayloadType => i = j

\* Everything up to the RTX loop.
BeginGetLocalCapabilities ==
    /\ called = "none"
    /\ called' = "getLocalCapabilities"
    /\ rtxLoop' = RtxLoopStart(filterWithCapabilities, localFullCapabilities)
    /\ UNCHANGED <<sdpObject, filterWithCapabilities, localFullCapabilities, ret>>

\* One iteration of the RTX loop.
RtxLoopStep ==
    /\ rtxLoop.running
    /\ ~RtxLoopDone(rtxLoop)
    /\ Len(rtxLoop.codecs) < MaxLoopCodecs
    /\ rtxLoop' = RtxLoopIteration(rtxLoop)
    /\ UNCHANGED <<sdpObject, filterWithCapabilities, localFullCapabilities, called, ret>>

\* Everything after the RTX loop.
EndGetLocalCapabilities ==
    /\ rtxLoop.running
    /\ RtxLoopDone(rtxLoop)
    /\ rtxLoop' = [rtxLoop EXCEPT !.running = FALSE]
    /\ ret' = Returned(FinishLocalCapabilities(rtxLoop.codecs, filterWithCapabilities,
                                               localFullCapabilities))
    /\ UNCHANGED <<sdpObject, filterWithCapabilities, localFullCapabilities, called>>

InitRtxLoop ==
    /\ sdpObject = NoDocument
    /\ filterWithCapabilities \in
          {r \in RemoteCapabilities(MaxRemoteCodecs, MaxRemoteExtensions) :
              DistinctPayloadTypes(r.codecs)}
    /\ localFullCapabilities \in LocalCapabilities
    /\ called = "none"
    /\ ret = NoRet
    /\ rtxLoop = NoLoop

NextRtxLoop ==
    \/ BeginGetLocalCapabilities
    \/ RtxLoopStep
    \/ EndGetLocalCapabilities

\* The function runs to its end without yielding: a step that can be taken is.
SpecRtxLoop == InitRtxLoop /\ [][NextRtxLoop]_vars /\ WF_vars(NextRtxLoop)

IsRtx(codec) == ToLowerCase(codec.name) = "rtx"

\* C1: every rtx entry that getLocalCapabilities synthesizes has parameters.apt
\* equal to the preferredPayloadType of exactly one negotiated primary codec
\* of the same result.
C1_RtxAptNamesOnePrimary ==
    NegotiationReturned =>
        LET codecs == ret.value.codecs IN
        \A r \in (Len(Matched) + 1)..Len(codecs) :
            Cardinality({p \in 1..Len(Matched) :
                            <<codecs[p].preferredPayloadType>>
                                = ParameterGet(codecs[r].parameters, "apt")}) = 1

RemoteRtxCount ==
    Cardinality({i \in 1..Len(filterWithCapabilities.codecs) :
                    IsRtx(filterWithCapabilities.codecs[i])})

\* C10: on a remote record with pairwise distinct payload types the RTX loop
\* ends, the function returns, and the loop never holds more appended entries
\* than the remote record has codecs named rtx.
C10_RtxLoopTerminates ==
    /\ <>(ret.status = "returned")
    /\ [](rtxLoop.running =>
            Len(rtxLoop.codecs) - rtxLoop.primaries <= RemoteRtxCount)

\* The function has returned after its RTX loop went over an entry it had
\* appended itself and appended another for it.
C10_Witness ==
    /\ NegotiationReturned
    /\ \E r, q \in (Len(Matched) + 1)..Len(ret.value.codecs) :
          ParameterGet(ret.value.codecs[q].parameters, "apt")
              = <<ret.value.codecs[r].preferredPayloadType>>

=============================================================================
